---- MODULE Spec2Model ----
(***************************************************************************)
(* Model of src/index.py: the Library store (load_books, save_books,       *)
(* add_book, remove_book, search_books, get_all_books, change_book_status) *)
(* over a backing JSON file.                                               *)
(*                                                                         *)
(* Text is modelled as a sequence of one-character strings.  The two       *)
(* status labels of the source, "в наличии" and "выдана", are written      *)
(* "available" and "checked_out".                                          *)
(***************************************************************************)
EXTENDS Integers, Sequences, FiniteSets, TLC

VARIABLES
    file,   \* the backing file: [kind, data]
    books,  \* Library.books: sequence of Book records
    pc,     \* "ready": a Library object exists; "crashed": construction raised
    op,     \* the operation that produced this state
    arg,    \* the arguments of that operation
    ret,    \* its return value (or the exception for a crashed load)
    saved   \* whether that operation called save_books

vars == <<file, books, pc, op, arg, ret, saved>>

----------------------------------------------------------------------------
(* Bounds of the model *)

MaxBooks == 3      \* add_book is not called on a store of MaxBooks records
MaxId == 4         \* add_book is not called when the new id would exceed MaxId
MaxFileLen == 2    \* records in a backing file found at start-up

----------------------------------------------------------------------------
(* Data *)

DEFAULT_STATUS == "available"
VALID_STATUSES == {"available", "checked_out"}

\* Status texts a caller can pass, or a file can hold: one is not enumerated.
StatusTexts == VALID_STATUSES \cup {"lost"}

\* (title, author, year) triples a caller passes to add_book.
AddInputs ==
    { <<(<<"A", "b">>), (<<"B">>), 12>>,
      <<(<<"b", "1">>), (<<"a">>), 2>> }

Queries == { <<>>, <<"a", "B">>, <<"2">>, <<"1", "2">>, <<"Z">> }

IdArgs == 1..MaxId
FileIds == 1..2

NoArg == [id |-> 0, title |-> <<>>, author |-> <<>>, year |-> 0,
          status |-> "", query |-> <<>>]

----------------------------------------------------------------------------
(* Book and the dict form of a book *)

\* Book.__init__: the status of a new Book is always the default.
Book(title, author, year, id) ==
    [id |-> id, title |-> title, author |-> author, year |-> year,
     status |-> DEFAULT_STATUS]

BOOK_KEYS == {"id", "title", "author", "year", "status"}

\* Library._create_book_from_dict without the status assignment.
CreateBookFromDictNoStatus(book_dict) ==
    Book(book_dict.title, book_dict.author, book_dict.year, book_dict.id)

\* Library._create_book_from_dict, for a dict that has all five keys.
CreateBookFromDict(book_dict) ==
    [Book(book_dict.title, book_dict.author, book_dict.year, book_dict.id)
        EXCEPT !.status = book_dict.status]

\* Library._books_to_dict
BooksToDict(bs) ==
    [i \in 1..Len(bs) |->
        [id |-> bs[i].id, title |-> bs[i].title, author |-> bs[i].author,
         year |-> bs[i].year, status |-> bs[i].status]]

----------------------------------------------------------------------------
(* The backing file.                                                       *)
(*   kind = "absent"     no file                                           *)
(*   kind = "malformed"  text that json.load rejects (JSONDecodeError)     *)
(*   kind = "scalar"     valid JSON that is a number, not a list           *)
(*   kind = "list"       valid JSON list; data holds its objects           *)

AbsentFile == [kind |-> "absent", data |-> <<>>]
MalformedFile == [kind |-> "malformed", data |-> <<>>]
ScalarFile == [kind |-> "scalar", data |-> <<>>]

\* json.dump of a list of dicts, as save_books writes it.
JsonDump(dicts) == [kind |-> "list", data |-> dicts]

\* What save_books leaves in the file.
SaveBooksFile(bs) == JsonDump(BooksToDict(bs))

\* Full record objects a file may hold: any of the ids with any status text.
FileDicts ==
    { [id |-> i, title |-> <<"A", "b">>, author |-> <<"B">>, year |-> 12,
       status |-> s] : i \in FileIds, s \in StatusTexts }

\* A record object without its 'status' key.
PartialDict == [id |-> 1, title |-> <<"A", "b">>, author |-> <<"B">>, year |-> 12]

FileItems == FileDicts \cup {PartialDict}

SeqsUpTo(S, n) == UNION { [1..k -> S] : k \in 0..n }

InitialFiles ==
    {AbsentFile, MalformedFile, ScalarFile}
        \cup { JsonDump(d) : d \in SeqsUpTo(FileItems, MaxFileLen) }

\* load_books: the exception that escapes ("none" when none does) and the
\* value of self.books afterwards (self.books is [] before the call).
LoadBooks(f) ==
    CASE f.kind = "absent" -> [raised |-> "none", books |-> <<>>]
      [] f.kind = "malformed" -> [raised |-> "none", books |-> <<>>]
      [] f.kind = "scalar" -> [raised |-> "TypeError", books |-> <<>>]
      [] OTHER ->
            IF \E i \in 1..Len(f.data) : ~(BOOK_KEYS \subseteq DOMAIN f.data[i])
            THEN [raised |-> "KeyError", books |-> <<>>]
            ELSE [raised |-> "none",
                  books |-> [i \in 1..Len(f.data) |-> CreateBookFromDict(f.data[i])]]

----------------------------------------------------------------------------
(* Text helpers *)

\* str.lower on one character of the model's alphabet.
LowerChar(c) ==
    CASE c = "A" -> "a"
      [] c = "B" -> "b"
      [] c = "Z" -> "z"
      [] OTHER -> c

\* str.lower
Lower(s) == [i \in 1..Len(s) |-> LowerChar(s[i])]

\* Python's `a in b` on text.
IsIn(a, b) ==
    \E off \in 0..(Len(b) - Len(a)) :
        \A k \in 1..Len(a) : b[off + k] = a[k]

DigitChar(d) ==
    CASE d = 0 -> "0" [] d = 1 -> "1" [] d = 2 -> "2" [] d = 3 -> "3"
      [] d = 4 -> "4" [] d = 5 -> "5" [] d = 6 -> "6" [] d = 7 -> "7"
      [] d = 8 -> "8" [] d = 9 -> "9"

RECURSIVE Digits(_)
Digits(n) ==
    IF n < 10 THEN <<DigitChar(n)>>
    ELSE Digits(n \div 10) \o <<DigitChar(n % 10)>>

\* str(year) for an int.
Str(n) == IF n < 0 THEN <<"-">> \o Digits(-n) ELSE Digits(n)

----------------------------------------------------------------------------
(* Pure parts of the operations *)

\* Python's max(iterable, default=...)
MaxOf(S, default) ==
    IF S = {} THEN default
    ELSE CHOOSE y \in S : \A z \in S : z <= y

BookIds(bs) == { bs[i].id : i \in 1..Len(bs) }

\* A new id taken from the number of records instead of the largest id.
NewIdByCount(bs) == Len(bs) + 1

\* add_book: new_id = max([book.id for book in self.books], default=0) + 1
NewId(bs) == MaxOf(BookIds(bs), 0) + 1

\* The condition of the comprehension in search_books, without lowering
\* the query.
QueryMatchesRaw(book, query) ==
    \/ IsIn(query, Lower(book.title))
    \/ IsIn(query, Lower(book.author))
    \/ query = Str(book.year)

\* search_books: query = query.lower(), then the comprehension's condition.
QueryMatches(book, query) ==
    LET q == Lower(query) IN
        \/ IsIn(q, Lower(book.title))
        \/ IsIn(q, Lower(book.author))
        \/ q = Str(book.year)

\* search_books
SearchBooks(bs, query) == SelectSeq(bs, LAMBDA b : QueryMatches(b, query))

\* Removal that takes the id for a position in the list.
WithoutIdByIndex(bs, book_id) ==
    [i \in 1..(Len(bs) - (IF book_id <= Len(bs) THEN 1 ELSE 0)) |->
        IF i < book_id THEN bs[i] ELSE bs[i + 1]]

\* remove_book: the list comprehension
WithoutId(bs, book_id) == SelectSeq(bs, LAMBDA b : b.id # book_id)

\* Index of the first book with the id, 0 when there is none.
FirstIndex(bs, book_id) ==
    IF \E i \in 1..Len(bs) : bs[i].id = book_id
    THEN CHOOSE i \in 1..Len(bs) :
            /\ bs[i].id = book_id
            /\ \A j \in 1..(i - 1) : bs[j].id # book_id
    ELSE 0

----------------------------------------------------------------------------
(* Operations *)

\* Library.__init__ on whatever file is found.
Init ==
    /\ file \in InitialFiles
    /\ books = LoadBooks(file).books
    /\ pc = IF LoadBooks(file).raised = "none" THEN "ready" ELSE "crashed"
    /\ op = "init"
    /\ arg = NoArg
    /\ ret = LoadBooks(file).raised
    /\ saved = FALSE

\* The program is started again on the file it left: main() constructs a
\* new Library, whose __init__ calls load_books.
Restart ==
    /\ file' = file
    /\ books' = LoadBooks(file).books
    /\ pc' = IF LoadBooks(file).raised = "none" THEN "ready" ELSE "crashed"
    /\ op' = "restart"
    /\ arg' = NoArg
    /\ ret' = LoadBooks(file).raised
    /\ saved' = FALSE

\* Library.add_book
AddBook(title, author, year) ==
    /\ pc = "ready"
    /\ Len(books) < MaxBooks
    /\ NewId(books) <= MaxId
    /\ LET new_id == NewId(books)
           new_book == Book(title, author, year, new_id)
       IN /\ books' = Append(books, new_book)
          /\ file' = SaveBooksFile(books')
          /\ saved' = TRUE
          /\ ret' = new_id
    /\ op' = "add"
    /\ arg' = [NoArg EXCEPT !.title = title, !.author = author, !.year = year]
    /\ pc' = pc

\* remove_book without its call of save_books.
RemoveBookNoSave(book_id) ==
    /\ pc = "ready"
    /\ books' = WithoutId(books, book_id)
    /\ file' = file
    /\ saved' = FALSE
    /\ ret' = (Len(books') < Len(books))
    /\ op' = "remove"
    /\ arg' = [NoArg EXCEPT !.id = book_id]
    /\ pc' = pc

\* remove_book calling save_books whether or not a book was removed.
RemoveBookAlwaysSaves(book_id) ==
    /\ pc = "ready"
    /\ books' = WithoutId(books, book_id)
    /\ file' = SaveBooksFile(books')
    /\ saved' = TRUE
    /\ ret' = (Len(books') < Len(books))
    /\ op' = "remove"
    /\ arg' = [NoArg EXCEPT !.id = book_id]
    /\ pc' = pc

\* Library.remove_book
RemoveBook(book_id) ==
    /\ pc = "ready"
    /\ LET initial_length == Len(books)
           kept == WithoutId(books, book_id)
       IN /\ books' = kept
          /\ IF Len(kept) < initial_length
             THEN /\ file' = SaveBooksFile(kept)
                  /\ saved' = TRUE
                  /\ ret' = TRUE
             ELSE /\ file' = file
                  /\ saved' = FALSE
                  /\ ret' = FALSE
    /\ op' = "remove"
    /\ arg' = [NoArg EXCEPT !.id = book_id]
    /\ pc' = pc

\* Library.search_books
SearchBooksOp(query) ==
    /\ pc = "ready"
    /\ ret' = SearchBooks(books, query)
    /\ op' = "search"
    /\ arg' = [NoArg EXCEPT !.query = query]
    /\ saved' = FALSE
    /\ UNCHANGED <<file, books, pc>>

\* Library.get_all_books
GetAllBooks ==
    /\ pc = "ready"
    /\ ret' = books
    /\ op' = "list_all"
    /\ arg' = NoArg
    /\ saved' = FALSE
    /\ UNCHANGED <<file, books, pc>>

\* change_book_status with the status test left out.
ChangeBookStatusUnchecked(book_id, new_status) ==
    /\ pc = "ready"
    /\ LET i == FirstIndex(books, book_id) IN
          IF i # 0
          THEN /\ books' = [books EXCEPT ![i].status = new_status]
               /\ file' = SaveBooksFile(books')
               /\ saved' = TRUE
               /\ ret' = TRUE
          ELSE /\ UNCHANGED <<books, file>>
               /\ saved' = FALSE
               /\ ret' = FALSE
    /\ op' = "set_status"
    /\ arg' = [NoArg EXCEPT !.id = book_id, !.status = new_status]
    /\ pc' = pc

\* Library.change_book_status: the loop returns at the first book with the
\* id when the status is one of the two; otherwise it runs to the end.
ChangeBookStatus(book_id, new_status) ==
    /\ pc = "ready"
    /\ LET i == FirstIndex(books, book_id) IN
          IF i # 0 /\ new_status \in VALID_STATUSES
          THEN /\ books' = [books EXCEPT ![i].status = new_status]
               /\ file' = SaveBooksFile(books')
               /\ saved' = TRUE
               /\ ret' = TRUE
          ELSE /\ UNCHANGED <<books, file>>
               /\ saved' = FALSE
               /\ ret' = FALSE
    /\ op' = "set_status"
    /\ arg' = [NoArg EXCEPT !.id = book_id, !.status = new_status]
    /\ pc' = pc

Next ==
    \/ Restart
    \/ \E x \in AddInputs : AddBook(x[1], x[2], x[3])
    \/ \E i \in IdArgs : RemoveBook(i)
    \/ \E q \in Queries : SearchBooksOp(q)
    \/ GetAllBooks
    \/ \E i \in IdArgs, s \in StatusTexts : ChangeBookStatus(i, s)

Spec == Init /\ [][Next]_vars

----------------------------------------------------------------------------
(* Properties *)

StoreWrote == op \in {"add", "remove", "set_status"} /\ saved

\* C1: in every reachable state the ids of the records held in the Store
\* are pairwise distinct.
C1_IdsDistinct ==
    \A i, j \in 1..Len(books) : i # j => books[i].id # books[j].id

\* C2: add returns 1 on an empty Store and otherwise the largest id plus
\* one, appends one record with that id, the given fields and the default
\* status at the end of the list, and an add that follows an add returns a
\* larger id.
C2_AddReturnsNextId ==
    [][op' = "add" =>
        /\ books = <<>> => ret' = 1
        /\ books # <<>> =>
              /\ (ret' - 1) \in BookIds(books)
              /\ \A b \in BookIds(books) : b < ret'
        /\ books' = Append(books,
                        [id |-> ret', title |-> arg'.title,
                         author |-> arg'.author, year |-> arg'.year,
                         status |-> "available"])
        /\ op = "add" => ret' > ret
    ]_vars

\* An add after a removal: the id returned is not the number of records.
C2_Witness == op = "add" /\ ret > Len(books) /\ Len(books) >= 2

\* C3: saving the records and loading the saved file gives back the same
\* sequence of records, with no exception; a restart on a file the Store
\* wrote leaves the records as they were.
C3_RoundTrip ==
    pc = "ready" =>
        /\ LoadBooks(SaveBooksFile(books)).raised = "none"
        /\ LoadBooks(SaveBooksFile(books)).books = books

\* A restart on a file written by the Store, holding a checked-out book.
C3_Witness ==
    /\ op = "restart"
    /\ pc = "ready"
    /\ Len(books) > MaxFileLen
    /\ file = SaveBooksFile(books)
    /\ \E i \in 1..Len(books) : books[i].status = "checked_out"

\* C4: after a completed add, a successful remove or a successful
\* set_status, save was called and the file is a snapshot of all records in
\* memory; search and list_all call no save and leave file and records
\* unchanged.
C4_SaveAfterMutation ==
    /\ [](( \/ op = "add"
            \/ (op \in {"remove", "set_status"} /\ ret = TRUE) )
          => (saved /\ file = JsonDump(BooksToDict(books))))
    /\ [][op' \in {"search", "list_all"} =>
            (~saved' /\ file' = file /\ books' = books)]_vars

\* A successful remove that left records behind, saved.
C4_Witness ==
    op = "remove" /\ ret = TRUE /\ saved /\ books # <<>> /\ file.data = BooksToDict(books)

\* C5: remove returns true exactly when a record with the id was present;
\* when none was, it saves nothing, the file and the records stay as they
\* were; when one was, no record with the id remains and the file holds the
\* new records.
C5_Remove ==
    [][op' = "remove" =>
        LET present == \E i \in 1..Len(books) : books[i].id = arg'.id IN
            /\ ret' = present
            /\ ~present => (~saved' /\ file' = file /\ books' = books)
            /\ present =>
                  /\ \A i \in 1..Len(books') : books'[i].id # arg'.id
                  /\ saved'
                  /\ file' = JsonDump(BooksToDict(books'))
    ]_vars

\* A remove of an id that no record of a non-empty Store has: nothing saved.
C5_Witness ==
    /\ op = "remove"
    /\ ret = FALSE
    /\ books # <<>>
    /\ arg.id \notin BookIds(books)
    /\ ~saved

\* C6: set_status returns true, updates the record and saves exactly when a
\* record has the id and the status is one of the two; otherwise it returns
\* false, changes no record and saves nothing.
C6_SetStatus ==
    [][op' = "set_status" =>
        LET found == \E i \in 1..Len(books) : books[i].id = arg'.id
            valid == arg'.status \in {"available", "checked_out"}
        IN  /\ ret' = (found /\ valid)
            /\ (found /\ valid) =>
                  /\ \E i \in 1..Len(books') :
                        books'[i].id = arg'.id /\ books'[i].status = arg'.status
                  /\ saved'
                  /\ file' = JsonDump(BooksToDict(books'))
            /\ ~(found /\ valid) =>
                  (books' = books /\ file' = file /\ ~saved')
    ]_vars

\* A status outside the two, for an id that a record has: rejected.
C6_Witness ==
    /\ op = "set_status"
    /\ ret = FALSE
    /\ arg.status = "lost"
    /\ arg.id \in BookIds(books)

\* C7: constructing a Store never raises because of the file's contents;
\* with no file, or a file that is not a list of full record objects, the
\* Store starts empty.
C7_LoadNeverRaises ==
    op \in {"init", "restart"} =>
        /\ pc = "ready"
        /\ ( \/ file.kind # "list"
             \/ \E i \in 1..Len(file.data) :
                    ~({"id", "title", "author", "year", "status"}
                            \subseteq DOMAIN file.data[i]) )
           => books = <<>>

\* C8: every record in memory, and every record of a file the Store wrote,
\* has one of the two enumerated statuses.
C8_StatusEnumerated ==
    /\ \A i \in 1..Len(books) : books[i].status \in {"available", "checked_out"}
    /\ StoreWrote =>
          \A i \in 1..Len(file.data) :
              file.data[i].status \in {"available", "checked_out"}

\* Text q occurs in text s when case is ignored.
OccursIgnoringCase(q, s) ==
    \E i \in 1..(Len(s) + 1) : \E j \in (i - 1)..Len(s) :
        Lower(SubSeq(s, i, j)) = Lower(q)

\* C9: search returns, in the order of the list, exactly the records whose
\* title or author contains the query when case is ignored, or whose year
\* written as text equals the query; the list is empty when none does.
C9_Search ==
    [][op' = "search" =>
        /\ ret' = SelectSeq(books,
                    LAMBDA b : \/ OccursIgnoringCase(arg'.query, b.title)
                               \/ OccursIgnoringCase(arg'.query, b.author)
                               \/ arg'.query = Str(b.year))
        /\ books' = books
    ]_vars

\* The query "2" finds a record of year 2 and not the record of year 12.
C9_Witness ==
    /\ op = "search"
    /\ arg.query = <<"2">>
    /\ \E i \in 1..Len(ret) : ret[i].year = 2
    /\ \E i \in 1..Len(books) : books[i].year = 12
    /\ \A i \in 1..Len(ret) : ret[i].year # 12

SameCore(a, b) ==
    a.id = b.id /\ a.title = b.title /\ a.author = b.author /\ a.year = b.year

\* C10: no step other than a remove drops a record or changes the id,
\* title, author or year of one; a successful set_status leaves every
\* record with another id as it was; a remove deletes the records with the
\* id and keeps the others in their order; list_all returns the list.
C10_Frame ==
    [][ /\ op' # "remove" =>
              /\ Len(books') >= Len(books)
              /\ \A i \in 1..Len(books) : SameCore(books'[i], books[i])
        /\ (op' = "set_status" /\ ret' = TRUE) =>
              /\ Len(books') = Len(books)
              /\ \A i \in 1..Len(books) :
                    books[i].id # arg'.id => books'[i] = books[i]
        /\ op' = "remove" =>
              LET keep == { i \in 1..Len(books) : books[i].id # arg'.id } IN
                  /\ Len(books') = Cardinality(keep)
                  /\ \A i \in keep :
                        books'[Cardinality({ j \in keep : j <= i })] = books[i]
        /\ op' = "list_all" => ret' = books'
    ]_vars

\* The middle one of three records was removed.
C10_Witness ==
    /\ op = "remove"
    /\ ret = TRUE
    /\ Len(books) = 2
    /\ books[1].id < arg.id
    /\ arg.id < books[2].id

====
